---- MODULE Spec2Model ----
(***************************************************************************)
(* A model of cfgyaml: Config (cfgyaml/config.py), a dict subclass with    *)
(* dotted-path item access, and ConfigDir (cfgyaml/config_dir.py), which   *)
(* loads a default file, a named file and extra arguments and merges them  *)
(* with __inject_dict.                                                     *)
(*                                                                         *)
(* Python values are modelled with reference semantics: dict and Config    *)
(* objects live in a heap and are named by references, because the merge   *)
(* stores source objects into the target without copying them.  A string   *)
(* is a sequence of one-character strings, so that str.split and           *)
(* str.replace are computed character by character.  A dict keeps its      *)
(* insertion order: its items are a sequence of key/value pairs.           *)
(***************************************************************************)
EXTENDS Integers, Sequences, FiniteSets, TLC

VARIABLES heap,    \* the dict / Config objects, indexed by object identity
          fs,      \* the filesystem: directories and files
          cdir,    \* the ConfigDir object: its path and default_filename
          inp,     \* the arguments the caller holds (literals and references)
          res,     \* the last call: operation, returned value or exception
          nops     \* number of calls made so far

vars == <<heap, fs, cdir, inp, res, nops>>

----------------------------------------------------------------------------
(* Bounds *)

MaxVal  == 2     \* scalars are 1..MaxVal
MaxCalls == 2    \* calls made on one Config after its construction
MaxLoads == 2    \* load calls made on one ConfigDir
MaxSaves == 2    \* save and load calls made with one saved Config

----------------------------------------------------------------------------
(* Strings *)

SEP   == "."     \* the separator of dotted keys and dotted names
OSSEP == "/"     \* os.sep

\* str.split(sep): "a..b" gives <<"a", "", "b">>, "" gives <<"">>
RECURSIVE split(_, _)
split(s, sep) ==
    IF \A i \in 1..Len(s) : s[i] # sep
    THEN <<s>>
    ELSE LET i == CHOOSE i \in 1..Len(s) :
                      s[i] = sep /\ \A j \in 1..(i-1) : s[j] # sep
         IN  <<SubSeq(s, 1, i-1)>> \o split(SubSeq(s, i+1, Len(s)), sep)

\* str.replace(old, new) for one-character old and new
replace(s, old, new) == [i \in 1..Len(s) |-> IF s[i] = old THEN new ELSE s[i]]

\* the "in" operator on a string and a one-character string
contains(s, c) == \E i \in 1..Len(s) : s[i] = c

\* names that a Config instance attribute of the same name shadows
NAME_items   == <<"i", "t", "e", "m", "s">>
NAME_to_dict == <<"t", "o", "_", "d", "i", "c", "t">>

----------------------------------------------------------------------------
(* Python values and the heap *)

NoneV     == [t |-> "None"]
IntV(n)   == [t |-> "int", v |-> n]
ListV(s)  == [t |-> "list", v |-> s]
Ref(i)    == [t |-> "ref", id |-> i]

IsRef(v)    == v.t = "ref"
Item(k, v)  == [k |-> k, v |-> v]
Obj(c, its) == [cls |-> c, items |-> its]

\* isinstance(v, dict): Config is a subclass of dict
isdict(h, v)   == IsRef(v)
isConfig(h, v) == IsRef(v) /\ h[v.id].cls = "Config"

keysOf(its)     == {its[i].k : i \in 1..Len(its)}
indexOf(its, k) == CHOOSE i \in 1..Len(its) : its[i].k = k
lookup(its, k)  == its[indexOf(its, k)].v

\* dict.__setitem__ on the item sequence: a present key keeps its position
store(its, k, v) ==
    IF k \in keysOf(its)
    THEN [its EXCEPT ![indexOf(its, k)] = Item(k, v)]
    ELSE Append(its, Item(k, v))

setitem(h, id, k, v) == [h EXCEPT ![id].items = store(h[id].items, k, v)]

\* outcome of a call: the heap after it, and a returned value or an exception
Ok(h, v)    == [h |-> h, ret |-> v, exc |-> "none"]
Raise(h, e) == [h |-> h, ret |-> NoneV, exc |-> e]

\* a literal (a tree) becomes a fresh object graph: {..} or safe_load(..)
RECURSIVE alloc(_, _), allocItems(_, _, _, _)
alloc(h, lit) ==
    IF lit.t # "map" THEN Ok(h, lit)
    ELSE LET id == Len(h) + 1
         IN  allocItems(Append(h, Obj("dict", <<>>)), id, lit.items, 1)
allocItems(h, id, its, i) ==
    IF i > Len(its) THEN Ok(h, Ref(id))
    ELSE LET r == alloc(h, its[i].v)
         IN  allocItems(setitem(r.h, id, its[i].k, r.ret), id, its, i + 1)

MapL(its) == [t |-> "map", items |-> its]

\* the plain form of a value, as a function from keys to plain forms; key
\* order and the class of a mapping are dropped.  fuel bounds the nesting:
\* a reference cycle is unrolled to that depth.
RECURSIVE plain(_, _, _)
plain(h, v, fuel) ==
    IF ~IsRef(v) THEN v
    ELSE IF fuel = 0 THEN [t |-> "cycle"]
    ELSE LET its == h[v.id].items
         IN  [t |-> "map",
              m |-> [k \in keysOf(its) |-> plain(h, lookup(its, k), fuel - 1)]]

Plain(h, v) == plain(h, v, Len(h) + 4)

\* the plain form of a literal
RECURSIVE plainL(_)
plainL(lit) ==
    IF lit.t # "map" THEN lit
    ELSE [t |-> "map",
          m |-> [k \in keysOf(lit.items) |-> plainL(lookup(lit.items, k))]]

----------------------------------------------------------------------------
(* ConfigDir.__inject_dict *)

\* a variant of nest that wraps in every key, the first one too (keys[::-1])
RECURSIVE nest_allKeys(_, _, _, _)
nest_allKeys(h, keys, j, val) ==
    IF j < 1 THEN Ok(h, val)
    ELSE nest_allKeys(Append(h, Obj("dict", <<Item(keys[j], val)>>)),
                      keys, j - 1, Ref(Len(h) + 1))

\* for k in keys[:0:-1]: val = {k: val}
RECURSIVE nest(_, _, _, _)
nest(h, keys, j, val) ==
    IF j < 2 THEN Ok(h, val)
    ELSE nest(Append(h, Obj("dict", <<Item(keys[j], val)>>)),
              keys, j - 1, Ref(Len(h) + 1))

\* key in target
inTarget(h, target, key) ==
    IF IsRef(target) THEN key \in keysOf(h[target.id].items) ELSE FALSE

RECURSIVE inject_dict(_, _, _), injectLoop(_, _, _, _)
inject_dict(h, target, source) ==
    IF target = NoneV THEN Ok(h, source)
    ELSE IF source = NoneV THEN Ok(h, target)
    ELSE IF ~IsRef(source) THEN Raise(h, "AttributeError")
    ELSE injectLoop(h, target, source, 1)

injectLoop(h, target, source, i) ==
    IF i > Len(h[source.id].items) THEN Ok(h, target)
    ELSE
      LET it == h[source.id].items[i]
      IN
      IF it.v = NoneV THEN injectLoop(h, target, source, i + 1)
      ELSE
        LET dotted == contains(it.k, SEP)
            keys   == split(it.k, SEP)
            n      == IF dotted THEN nest(h, keys, Len(keys), it.v)
                      ELSE Ok(h, it.v)
            key    == IF dotted THEN keys[1] ELSE it.k
            val    == n.ret
        IN
        IF isdict(n.h, val) /\ target.t = "int"
        THEN Raise(n.h, "TypeError")          \* key in <int>
        ELSE IF isdict(n.h, val) /\ inTarget(n.h, target, key)
        THEN LET r == inject_dict(n.h, lookup(n.h[target.id].items, key), val)
             IN  IF r.exc # "none" THEN r
                 ELSE injectLoop(setitem(r.h, target.id, key, r.ret),
                                 target, source, i + 1)
        ELSE IF ~IsRef(target)
        THEN Raise(n.h, "TypeError")          \* <int or list>[key] = val
        ELSE injectLoop(setitem(n.h, target.id, key, val),
                        target, source, i + 1)

----------------------------------------------------------------------------
(* Config *)

\* node = dict.__getitem__(node, k) for k = keys[i], .., keys[n]
RECURSIVE walk(_, _, _, _, _)
walk(h, node, keys, i, n) ==
    IF i > n THEN Ok(h, node)
    ELSE IF ~IsRef(node) THEN Raise(h, "TypeError")
    ELSE IF keys[i] \notin keysOf(h[node.id].items) THEN Raise(h, "KeyError")
    ELSE walk(h, lookup(h[node.id].items, keys[i]), keys, i + 1, n)

RECURSIVE Config_init(_, _), initLoop(_, _, _, _), set_value(_, _, _, _)
Config_init(h, original) ==
    LET id == Len(h) + 1
        h1 == Append(h, Obj("Config", <<>>))
    IN  IF original = NoneV THEN Ok(h1, Ref(id))
        ELSE IF ~IsRef(original) THEN Raise(h1, "AttributeError")
        ELSE initLoop(h1, id, original, 1)

initLoop(h, id, original, i) ==
    IF i > Len(h[original.id].items) THEN Ok(h, Ref(id))
    ELSE LET it == h[original.id].items[i]
             w  == IF isdict(h, it.v) /\ ~isConfig(h, it.v)
                   THEN Config_init(h, it.v)
                   ELSE Ok(h, it.v)
         IN  IF w.exc # "none" THEN w
             ELSE LET s == set_value(w.h, Ref(id), it.k, w.ret)
                  IN  IF s.exc # "none" THEN s
                      ELSE initLoop(s.h, id, original, i + 1)

\* a variant of set_value that stores a plain dict as it is
set_value_nowrap(h, self, key, value) ==
    LET keys == split(key, SEP)
        nd   == walk(h, self, keys, 1, Len(keys) - 1)
    IN  IF nd.exc # "none" THEN nd
        ELSE IF ~isConfig(nd.h, nd.ret)
        THEN Raise(nd.h, "AttributeError")
        ELSE Ok(setitem(nd.h, nd.ret.id, keys[Len(keys)], value), NoneV)

\* __setitem__ and __setattr__ both come here.  The instance attribute that
\* dict.__setattr__ writes has the name and the value of the item written on
\* the next line, so the attributes of a Config are its items.
set_value(h, self, key, value) ==
    LET w == IF isdict(h, value) /\ ~isConfig(h, value)
             THEN Config_init(h, value)
             ELSE Ok(h, value)
    IN  IF w.exc # "none" THEN w
        ELSE LET keys == split(key, SEP)
                 nd   == walk(w.h, self, keys, 1, Len(keys) - 1)
             IN  IF nd.exc # "none" THEN nd
                 ELSE IF ~isConfig(nd.h, nd.ret)
                 THEN Raise(nd.h, "AttributeError")   \* dict.__setattr__
                 ELSE Ok(setitem(nd.h, nd.ret.id, keys[Len(keys)], w.ret),
                         NoneV)

getitem(h, self, key) ==
    LET keys == split(key, SEP) IN walk(h, self, keys, 1, Len(keys))

\* obj.name, called: the instance attribute wins over the method of the class
shadowed(h, obj, name) == name \in keysOf(h[obj.id].items)

\* fuel is the recursion left; a Config that contains itself exhausts it
RECURSIVE to_dict(_, _, _), toDictLoop(_, _, _, _, _)
to_dict(h, self, fuel) ==
    IF fuel = 0 THEN Raise(h, "RecursionError")
    ELSE LET h1 == Append(h, Obj("dict", <<>>))
         IN  IF shadowed(h1, self, NAME_items) THEN Raise(h1, "TypeError")
             ELSE toDictLoop(h1, self, Len(h1), 1, fuel)

toDictLoop(h, self, result, i, fuel) ==
    IF i > Len(h[self.id].items) THEN Ok(h, Ref(result))
    ELSE LET it == h[self.id].items[i]
         IN  IF isConfig(h, it.v)
             THEN IF shadowed(h, it.v, NAME_to_dict) THEN Raise(h, "TypeError")
                  ELSE LET r == to_dict(h, it.v, fuel - 1)
                       IN  IF r.exc # "none" THEN r
                           ELSE toDictLoop(setitem(r.h, result, it.k, r.ret),
                                           self, result, i + 1, fuel)
             ELSE toDictLoop(setitem(h, result, it.k, it.v),
                             self, result, i + 1, fuel)

\* cfg.to_dict() as the caller writes it
call_to_dict(h, cfg) ==
    IF shadowed(h, cfg, NAME_to_dict) THEN Raise(h, "TypeError")
    ELSE to_dict(h, cfg, Len(h) + 1)

----------------------------------------------------------------------------
(* Paths, files and YAML text *)

StrV(s) == [t |-> "str", v |-> s]

EXT == <<".", "y", "a", "m", "l">>

\* the characters in code point order
CHARS == <<".", "/", "_", "a", "b", "c", "d", "e", "f", "g", "h", "i", "j",
           "k", "l", "m", "n", "o", "p", "q", "r", "s", "t", "u", "v", "w",
           "x", "y", "z">>

ord(c) == CHOOSE i \in 1..Len(CHARS) : CHARS[i] = c

\* s < t on strings
RECURSIVE strLess(_, _)
strLess(s, t) ==
    IF t = <<>> THEN FALSE
    ELSE IF s = <<>> THEN TRUE
    ELSE IF s[1] # t[1] THEN ord(s[1]) < ord(t[1])
    ELSE strLess(Tail(s), Tail(t))

\* pathlib.Path(s): empty and "." components are dropped
RECURSIVE dropDots(_)
dropDots(parts) ==
    IF parts = <<>> THEN <<>>
    ELSE IF Head(parts) = <<>> \/ Head(parts) = <<".">>
         THEN dropDots(Tail(parts))
         ELSE <<Head(parts)>> \o dropDots(Tail(parts))

Path(s) == [abs   |-> s # <<>> /\ s[1] = OSSEP,
            parts |-> dropDots(split(s, OSSEP))]

\* Path.joinpath(s): an absolute s replaces the path
joinpath(p, s) ==
    LET q == Path(s)
    IN  IF q.abs THEN q ELSE [abs |-> p.abs, parts |-> p.parts \o q.parts]

parent(p)   == [p EXCEPT !.parts = SubSeq(p.parts, 1, Len(p.parts) - 1)]
prefixes(p) == {[p EXCEPT !.parts = SubSeq(p.parts, 1, n)] : n \in 0..Len(p.parts)}

isFile(fsys, p) == p \in DOMAIN fsys.files
isDir(fsys, p)  == p \in fsys.dirs

\* Path.mkdir(parents=True, exist_ok=True)
mkdir(fsys, p) ==
    IF \E q \in prefixes(p) : isFile(fsys, q)
    THEN [fs |-> fsys,
          exc |-> IF isFile(fsys, p) THEN "FileExistsError"
                  ELSE "NotADirectoryError"]
    ELSE [fs |-> [fsys EXCEPT !.dirs = @ \cup prefixes(p)], exc |-> "none"]

\* the exception of open(p, mode), or "none"
openExc(fsys, p, mode) ==
    IF p.parts = <<>> \/ isDir(fsys, p) THEN "IsADirectoryError"
    ELSE IF \E q \in prefixes(parent(p)) : isFile(fsys, q)
    THEN "NotADirectoryError"
    ELSE IF ~isDir(fsys, parent(p)) THEN "FileNotFoundError"
    ELSE IF mode = "r" /\ ~isFile(fsys, p) THEN "FileNotFoundError"
    ELSE "none"

\* Path.exists()
exists(fsys, p) == isFile(fsys, p) \/ isDir(fsys, p)

\* the content of a file is the literal its YAML text denotes; the empty
\* file denotes None
writeFile(fsys, p, lit) ==
    [fsys EXCEPT !.files = [q \in DOMAIN @ \cup {p} |->
                               IF q = p THEN lit ELSE @[q]]]

\* the keys of a set, in increasing order
RECURSIVE sorted(_)
sorted(ks) ==
    IF ks = {} THEN <<>>
    ELSE LET k == CHOOSE k \in ks : \A j \in ks \ {k} : strLess(k, j)
         IN  <<k>> \o sorted(ks \ {k})

\* safe_dump(v): the mapping keys are written in sorted order
RECURSIVE safe_dump(_, _)
safe_dump(h, v) ==
    IF ~IsRef(v) THEN v
    ELSE LET its == h[v.id].items
             ks  == sorted(keysOf(its))
         IN  MapL([i \in 1..Len(ks) |->
                      Item(ks[i], safe_dump(h, lookup(its, ks[i])))])

\* safe_load(stream)
safe_load(h, lit) == alloc(h, lit)

----------------------------------------------------------------------------
(* Config.save *)

save(h, fsys, self, name, directory) ==
    LET name2    == replace(name, SEP, OSSEP) \o EXT
        dirp     == Path(directory)
        fullname == joinpath(dirp, name2)
        md       == mkdir(fsys, dirp)
        oe       == openExc(md.fs, fullname, "w")
        opened   == writeFile(md.fs, fullname, NoneV)
        td       == to_dict(h, self, Len(h) + 1)
    IN  IF md.exc # "none" THEN [h |-> h, fs |-> fsys, exc |-> md.exc]
        ELSE IF oe # "none" THEN [h |-> h, fs |-> md.fs, exc |-> oe]
        ELSE IF shadowed(h, self, NAME_to_dict)
        THEN [h |-> h, fs |-> opened, exc |-> "TypeError"]
        ELSE IF td.exc # "none" THEN [h |-> td.h, fs |-> opened, exc |-> td.exc]
        ELSE [h |-> td.h, exc |-> "none",
              fs |-> writeFile(md.fs, fullname, safe_dump(td.h, td.ret))]

----------------------------------------------------------------------------
(* ConfigDir *)

ConfigDir(path, default_filename) ==
    [path |-> Path(path), default_filename |-> default_filename]

default_file_fullpath(cd) == joinpath(cd.path, cd.default_filename.v \o EXT)

\* load(config_name, args); args is a dict or None (for a Namespace, vars(args)
\* is the dict that holds its attributes and the same call is made on it)
load(h, fsys, cd, config_name, args) ==
    LET dpath == default_file_fullpath(cd)
        dexc  == IF cd.default_filename = NoneV THEN "none"
                 ELSE openExc(fsys, dpath, "r")
    IN
    IF dexc # "none" THEN Raise(h, dexc)
    ELSE
      LET l1 == IF cd.default_filename = NoneV THEN Ok(h, NoneV)
                ELSE safe_load(h, fsys.files[dpath])
          default_config == l1.ret
          fullname == joinpath(cd.path,
                               replace(config_name.v, SEP, OSSEP) \o EXT)
          oexc == openExc(fsys, fullname, "r")
          l2 == IF config_name = NoneV
                THEN IF default_config # NoneV THEN Ok(l1.h, default_config)
                     ELSE Raise(l1.h, "RuntimeError")
                ELSE IF ~exists(fsys, fullname)
                THEN Raise(l1.h, "FileNotFoundError")
                ELSE IF oexc # "none" THEN Raise(l1.h, oexc)
                ELSE LET o == safe_load(l1.h, fsys.files[fullname])
                     IN  inject_dict(o.h, default_config, o.ret)
      IN
      IF l2.exc # "none" THEN l2
      ELSE LET l3 == inject_dict(l2.h, l2.ret, args)
           IN  IF l3.exc # "none" THEN l3
               ELSE Config_init(l3.h, l3.ret)

----------------------------------------------------------------------------
(* Inputs *)

K_a     == <<"a">>
K_b     == <<"b">>
K_c     == <<"c">>
K_ab    == <<"a", ".", "b">>
K_ac    == <<"a", ".", "c">>
K_abc   == <<"a", ".", "b", ".", "c">>

Ints    == {IntV(n) : n \in 1..MaxVal}
AList   == ListV(<<1, 2>>)
EmptyL  == MapL(<<>>)

Perms(S) == {p \in [1..Cardinality(S) -> S] : \A i, j \in DOMAIN p : p[i] = p[j] => i = j}

\* the dict literals with keys from Ks, in every order, and values from Vs
DictLits(Ks, Vs) ==
    UNION {{MapL([i \in 1..Cardinality(S) |-> Item(p[i], f[p[i]])]) :
               p \in Perms(S), f \in [S -> Vs]} : S \in SUBSET Ks}

\* the dict literals whose keys are a subsequence of ks
RECURSIVE DictLitsSeq(_, _)
DictLitsSeq(ks, Vs) ==
    IF ks = <<>> THEN {EmptyL}
    ELSE LET rest == DictLitsSeq(Tail(ks), Vs)
         IN  rest \cup {MapL(<<Item(Head(ks), v)>> \o r.items) :
                           v \in Vs, r \in rest}

Idle    == [op |-> "idle", exc |-> "none"]
EmptyFS == [dirs |-> {Path(<<>>)}, files |-> <<>>]
NoDir   == [path |-> Path(<<>>), default_filename |-> NoneV]

----------------------------------------------------------------------------
(* Paths into plain forms *)

Absent == [t |-> "absent"]

\* the value a plain form holds at a sequence of keys
RECURSIVE at(_, _)
at(pf, path) ==
    IF path = <<>> THEN pf
    ELSE IF pf.t # "map" THEN Absent
    ELSE IF Head(path) \notin DOMAIN pf.m THEN Absent
    ELSE at(pf.m[Head(path)], Tail(path))

\* the <<path, value>> pairs of a plain form: its non-mapping values and its
\* empty mappings
RECURSIVE entries(_, _)
entries(pf, prefix) ==
    IF pf.t # "map" \/ DOMAIN pf.m = {} THEN {<<prefix, pf>>}
    ELSE UNION {entries(pf.m[k], Append(prefix, k)) : k \in DOMAIN pf.m}

\* the same for a literal with its keys expanded at the separator
RECURSIVE entriesX(_, _)
entriesX(lit, prefix) ==
    IF lit.t # "map" \/ lit.items = <<>> THEN {<<prefix, lit>>}
    ELSE UNION {entriesX(lit.items[i].v, prefix \o split(lit.items[i].k, SEP)) :
                   i \in 1..Len(lit.items)}

isPrefix(p, q) == Len(p) <= Len(q) /\ SubSeq(q, 1, Len(p)) = p
related(p, q)  == isPrefix(p, q) \/ isPrefix(q, p)

----------------------------------------------------------------------------
(* The merge on its own: merge(T, S) for a target and a source literal *)

InnerT       == DictLitsSeq(<<K_b>>, Ints \cup {NoneV})
InnerS       == DictLitsSeq(<<K_b>>, {IntV(MaxVal), NoneV, EmptyL})
MergeTargets == DictLitsSeq(<<K_a, K_c>>, {IntV(1), AList, NoneV} \cup InnerT)
MergeSources == DictLits({K_a, K_ab}, {IntV(MaxVal), NoneV} \cup InnerS)

InitMerge ==
    \E T \in MergeTargets, S \in MergeSources :
        LET t == alloc(<<>>, T)
            s == alloc(t.h, S)
        IN  /\ heap = s.h
            /\ inp = [T |-> T, S |-> S, target |-> t.ret, source |-> s.ret]
            /\ fs = EmptyFS
            /\ cdir = NoDir
            /\ res = Idle
            /\ nops = 0

Merge ==
    /\ res.op = "idle"
    /\ LET r == inject_dict(heap, inp.target, inp.source)
       IN  /\ heap' = r.h
           /\ res' = [op |-> "merge", exc |-> r.exc, ret |-> r.ret]
    /\ nops' = nops + 1
    /\ UNCHANGED <<fs, cdir, inp>>

NextMerge == Merge

SpecMerge == InitMerge /\ [][NextMerge]_vars

\* the first segments of the keys of a source literal other than its i-th
otherHeads(S, i) ==
    {split(S.items[j].k, SEP)[1] : j \in (1..Len(S.items)) \ {i}}
heads(S) == {split(S.items[j].k, SEP)[1] : j \in 1..Len(S.items)}

\* C1: merge overwrites on type mismatch.  When the target holds a scalar or
\* a list at key k and the source holds a mapping m at key k (and no other
\* source key addresses k), merge(T, S) completes without error, the result
\* holds exactly m at k, and every key of T that the source does not address
\* is unchanged.
C1_MergeOverwritesOnTypeMismatch ==
    res.op = "merge" =>
      \A i \in 1..Len(inp.S.items) :
        LET k   == inp.S.items[i].k
            m   == inp.S.items[i].v
            Tpf == plainL(inp.T)
        IN  ( /\ ~contains(k, SEP)
              /\ m.t = "map"
              /\ k \in DOMAIN Tpf.m
              /\ Tpf.m[k].t \in {"int", "list"}
              /\ k \notin otherHeads(inp.S, i) )
            => /\ res.exc = "none"
               /\ LET R == Plain(heap, res.ret)
                  IN  /\ at(R, <<k>>) = plainL(m)
                      /\ \A j \in DOMAIN Tpf.m \ heads(inp.S) :
                             at(R, <<j>>) = Tpf.m[j]

\* C2: merge is none-safe.  For every path at which the source holds none
\* (as a top-level entry, under a dotted key, or nested inside a mapping
\* value) and at or around which it holds no other value, the result of a
\* merge holds what the target held there: nothing if the target had
\* nothing, the target's value otherwise.
C2_MergeIsNoneSafe ==
    (res.op = "merge" /\ res.exc = "none") =>
      LET E   == entriesX(inp.S, <<>>)
          R   == Plain(heap, res.ret)
          Tpf == plainL(inp.T)
      IN  \A e \in E :
            ( /\ e[2] = NoneV
              /\ \A f \in E : f[2] # NoneV => ~related(e[1], f[1]) )
            => at(R, e[1]) = at(Tpf, e[1])

----------------------------------------------------------------------------
(* One Config: construction from a plain mapping, then set, get, to_dict *)

InnerM   == {EmptyL, MapL(<<Item(K_b, IntV(1))>>)}
Mappings == DictLits({K_a, K_ab}, {IntV(1)} \cup InnerM)
              \cup {MapL(<<Item(NAME_items, IntV(1))>>),
                    MapL(<<Item(K_a, MapL(<<Item(NAME_to_dict, IntV(1))>>))>>)}

SetPaths   == {K_a, K_b, K_ab, K_abc}
NestedL    == MapL(<<Item(K_b, MapL(<<Item(K_c, IntV(1))>>))>>)
DottedL    == MapL(<<Item(K_a, EmptyL), Item(K_ab, IntV(1))>>)
SetValues  == Ints \cup {AList, EmptyL, NestedL, DottedL}
\* where an existing Config to pass as a value is taken from: the Config
\* itself (the empty string of keys) or one of its nested Configs
AliasPaths == {<<>>, <<K_a>>}

InitMap ==
    /\ heap = <<>>
    /\ inp \in {[M |-> M, cfg |-> NoneV] : M \in Mappings}
    /\ fs = EmptyFS
    /\ cdir = NoDir
    /\ res = Idle
    /\ nops = 0

\* cfg = Config(M)
Construct ==
    /\ res.op = "idle"
    /\ LET a == alloc(heap, inp.M)
           c == Config_init(a.h, a.ret)
       IN  /\ heap' = c.h
           /\ inp' = [inp EXCEPT !.cfg = IF c.exc = "none" THEN c.ret ELSE NoneV]
           /\ res' = [op |-> "init", exc |-> c.exc]
    /\ UNCHANGED <<fs, cdir, nops>>

\* cfg[p] = v, for a scalar, a list or a plain mapping v
Set(p, v) ==
    /\ inp.cfg # NoneV
    /\ nops < MaxCalls
    /\ LET a == alloc(heap, v)
           r == set_value(a.h, inp.cfg, p, a.ret)
       IN  /\ heap' = r.h
           /\ res' = [op |-> "set", exc |-> r.exc, path |-> p,
                      val |-> plainL(v), kind |-> "plain"]
    /\ nops' = nops + 1
    /\ UNCHANGED <<fs, cdir, inp>>

\* the node a sequence of keys leads to
RECURSIVE nodeAt(_, _, _)
nodeAt(h, node, ks) ==
    IF ks = <<>> THEN node
    ELSE IF ~IsRef(node) \/ Head(ks) \notin keysOf(h[node.id].items) THEN NoneV
    ELSE nodeAt(h, lookup(h[node.id].items, Head(ks)), Tail(ks))

\* cfg[p] = c, for a Config c that the caller took from cfg
SetConfig(p, q) ==
    /\ inp.cfg # NoneV
    /\ nops < MaxCalls
    /\ LET c == nodeAt(heap, inp.cfg, q)
       IN  /\ isConfig(heap, c)
           /\ LET r == set_value(heap, inp.cfg, p, c)
              IN  /\ heap' = r.h
                  /\ res' = [op |-> "set", exc |-> r.exc, path |-> p,
                             val |-> Plain(heap, c), kind |-> "Config"]
    /\ nops' = nops + 1
    /\ UNCHANGED <<fs, cdir, inp>>

\* cfg[p]
Get(p) ==
    /\ inp.cfg # NoneV
    /\ nops < MaxCalls
    /\ LET r == getitem(heap, inp.cfg, p)
       IN  res' = [op |-> "get", exc |-> r.exc, path |-> p,
                   val |-> Plain(r.h, r.ret)]
    /\ nops' = nops + 1
    /\ UNCHANGED <<heap, fs, cdir, inp>>

\* cfg.to_dict(); the caller keeps the plain form of the returned dict
ToDict ==
    /\ inp.cfg # NoneV
    /\ nops < MaxCalls
    /\ LET r == call_to_dict(heap, inp.cfg)
       IN  res' = [op |-> "to_dict", exc |-> r.exc, val |-> Plain(r.h, r.ret)]
    /\ nops' = nops + 1
    /\ UNCHANGED <<heap, fs, cdir, inp>>

NextMap ==
    \/ Construct
    \/ \E p \in SetPaths, v \in SetValues : Set(p, v)
    \/ \E p \in SetPaths, q \in AliasPaths : SetConfig(p, q)
    \/ \E p \in SetPaths : Get(p)
    \/ ToDict

SpecMap == InitMap /\ [][NextMap]_vars

segs(p) == split(p, SEP)
butLast(ks) == SubSeq(ks, 1, Len(ks) - 1)

\* the objects reachable from a set of objects through item values
refsOf(h, id) ==
    {h[id].items[i].v.id : i \in {j \in 1..Len(h[id].items) : IsRef(h[id].items[j].v)}}
RECURSIVE reach(_, _, _)
reach(h, frontier, seen) ==
    IF frontier = {} THEN seen
    ELSE reach(h, (UNION {refsOf(h, id) : id \in frontier}) \ (seen \cup frontier),
               seen \cup frontier)

\* get(q) as the caller sees it: the exception, or the plain form of the value
GetOutcome(h, q) ==
    LET g == getitem(h, inp.cfg, q) IN <<g.exc, Plain(h, g.ret)>>

ProbePaths == SetPaths \cup {K_c, K_ac}

\* C5: dotted-path traversal errors.  get(p) and set(p, v) fail with
\* KeyNotFound (KeyError), and with no other error, whenever a segment that
\* must be traversed is absent or the node reached before the last segment is
\* not a mapping; a failing set leaves the map unchanged.
C5_TraversalErrorsAreKeyNotFound ==
    [][ LET P   == Plain(heap, inp.cfg)
            ks  == segs(res'.path)
            pre == at(P, butLast(ks))
        IN  /\ (res'.op = "get" /\ at(P, ks) = Absent)
                  => res'.exc = "KeyError"
            /\ (res'.op = "set" /\ (pre = Absent \/ pre.t # "map"))
                  => /\ res'.exc = "KeyError"
                     /\ Plain(heap', inp.cfg) = P ]_vars

\* C6: wrap/unwrap round trip.  Constructing a Config from a plain nested
\* mapping M (a key may contain the separator) succeeds, and to_dict() of it
\* equals M.
C6_WrapUnwrapRoundTrip ==
    /\ res.op = "init" => res.exc = "none"
    /\ (res.op = "to_dict" /\ nops = 1)
          => (res.exc = "none" /\ res.val = plainL(inp.M))

\* C7: auto-wrap invariant.  After construction and any sequence of set
\* calls, every mapping reachable from the root through mapping values is a
\* Config; no plain dict is stored inside a Config.
C7_AutoWrapInvariant ==
    inp.cfg # NoneV =>
      \A id \in reach(heap, {inp.cfg.id}, {}) : heap[id].cls = "Config"

\* a plain nested mapping has been stored by a set call that followed
\* another call
C7_Witness ==
    /\ res.op = "set" /\ res.exc = "none" /\ res.kind = "plain"
    /\ res.val = plainL(NestedL)
    /\ nops >= 2
    /\ Cardinality(reach(heap, {inp.cfg.id}, {})) >= 3

\* C8: dotted get/set consistency.  After a set(p, v) that succeeds, get(p)
\* returns a value whose plain form equals v, and get(q) is unchanged for
\* every path q that is neither p, nor a prefix of p, nor an extension of p.
C8_GetSetConsistency ==
    [][ (res'.op = "set" /\ res'.exc = "none") =>
          /\ GetOutcome(heap', res'.path) = <<"none", res'.val>>
          /\ \A q \in ProbePaths :
                ~related(segs(q), segs(res'.path))
                   => GetOutcome(heap', q) = GetOutcome(heap, q) ]_vars

----------------------------------------------------------------------------
(* One ConfigDir: a default file, a named file and the caller's args *)

P_cfg   == <<"c", "f", "g">>          \* the directory
N_def   == <<"d", "e", "f">>          \* the default filename
N_ov    == <<"o", ".", "v">>          \* a named file, cfg/o/v.yaml
N_none  == <<"m">>                    \* a name with no file

Missing == [t |-> "missing"]

\* the values of the three sources are told apart: 1 default, 2 named, 3 args
DefaultContents ==
    DictLitsSeq(<<K_a, K_c>>,
                {IntV(1), NoneV, MapL(<<Item(K_b, IntV(1)), Item(K_c, IntV(1))>>)})
      \cup {NoneV, Missing, MapL(<<Item(K_ab, IntV(1))>>)}
NamedContents ==
    DictLitsSeq(<<K_a, K_c>>, {IntV(2), NoneV, MapL(<<Item(K_b, IntV(2))>>)})
      \cup {NoneV, Missing, MapL(<<Item(K_ab, IntV(2))>>)}
ArgsNested == MapL(<<Item(K_b, IntV(3))>>)
ArgsLits ==
    DictLits({K_ab, K_c}, {IntV(3), NoneV})
      \cup {MapL(<<Item(K_a, ArgsNested), Item(K_ac, IntV(3))>>),
            MapL(<<Item(K_ac, IntV(3)), Item(K_a, ArgsNested)>>),
            MapL(<<Item(K_a, IntV(3)), Item(K_ac, IntV(3))>>),
            MapL(<<Item(K_ac, IntV(3))>>),
            NoneV}
LoadNames == {NoneV, StrV(N_ov), StrV(N_none)}

FilesOf(D, O) ==
    LET dp == joinpath(Path(P_cfg), N_def \o EXT)
        op == joinpath(Path(P_cfg), replace(N_ov, SEP, OSSEP) \o EXT)
        f0 == [dirs  |-> prefixes(parent(op)), files |-> <<>>]
        f1 == IF D = Missing THEN f0 ELSE writeFile(f0, dp, D)
    IN  IF O = Missing THEN f1 ELSE writeFile(f1, op, O)

InitLoad ==
    \E D \in DefaultContents, O \in NamedContents, A \in ArgsLits,
       df \in {NoneV, StrV(N_def)} :
        LET a == alloc(<<>>, A)
        IN  /\ heap = a.h
            /\ inp = [D |-> D, O |-> O, A |-> A, args |-> a.ret]
            /\ fs = FilesOf(D, O)
            /\ cdir = ConfigDir(P_cfg, df)
            /\ res = Idle
            /\ nops = 0

\* cfg = cdir.load(name, args)
Load(name) ==
    /\ nops < MaxLoads
    /\ LET r == load(heap, fs, cdir, name, inp.args)
       IN  /\ heap' = r.h
           /\ res' = [op |-> "load", exc |-> r.exc, name |-> name,
                      ret |-> r.ret, val |-> Plain(r.h, r.ret)]
    /\ nops' = nops + 1
    /\ UNCHANGED <<fs, cdir, inp>>

NextLoad == \E name \in LoadNames : Load(name)

SpecLoad == InitLoad /\ [][NextLoad]_vars

\* the sources of the last load as literals; a source that is not there (no
\* default filename, no name, no args, an empty file) has no entries
asMap(lit) == IF lit.t = "map" THEN lit ELSE EmptyL
srcD == IF cdir.default_filename = NoneV THEN EmptyL ELSE asMap(inp.D)
srcO == IF res.name = NoneV THEN EmptyL ELSE asMap(inp.O)
srcA == asMap(inp.A)

\* the leaves of a literal: the paths at which it holds a scalar or a list
leaves(lit)    == {e \in entriesX(lit, <<>>) : e[2].t \in {"int", "list"}}
leafPaths(lit) == {e[1] : e \in leaves(lit)}
leafAt(lit, p) == (CHOOSE e \in leaves(lit) : e[1] = p)[2]

\* the paths at which a literal holds a mapping
mapPaths(lit) ==
    {e[1] : e \in {f \in entriesX(lit, <<>>) : f[2].t = "map"}}
      \cup UNION {{SubSeq(e[1], 1, n) : n \in 0..(Len(e[1]) - 1)} :
                     e \in entriesX(lit, <<>>)}

\* every key of the literal, at every level, is free of the separator
RECURSIVE undotted(_)
undotted(lit) ==
    lit.t = "map" =>
       \A i \in 1..Len(lit.items) :
           ~contains(lit.items[i].k, SEP) /\ undotted(lit.items[i].v)

flat(lit) == \A i \in 1..Len(lit.items) : lit.items[i].v.t # "map"

\* no path is a mapping in one source and a leaf in a source
consistent ==
    (leafPaths(srcD) \cup leafPaths(srcO) \cup leafPaths(srcA))
       \cap (mapPaths(srcD) \cup mapPaths(srcO) \cup mapPaths(srcA)) = {}

C3_Pre ==
    /\ res.op = "load" /\ res.exc = "none"
    /\ undotted(srcD) /\ undotted(srcO) /\ flat(srcA)
    /\ consistent

C4_LoadErrorOutcomes ==
    res.op = "load" =>
      LET hasDef   == cdir.default_filename # NoneV
          named    == res.name # NoneV
          noDefault == hasDef /\ ~isFile(fs, default_file_fullpath(cdir))
          noNamed  == named /\ ~isFile(fs, joinpath(cdir.path,
                                 replace(res.name.v, SEP, OSSEP) \o EXT))
          expected == IF noDefault \/ noNamed THEN "FileNotFoundError"
                      ELSE IF ~hasDef /\ ~named THEN "RuntimeError"
                      ELSE "none"
      IN  /\ res.exc = expected
          /\ res.exc # "none" => res.ret = NoneV
          /\ res.exc = "none" => isConfig(heap, res.ret)

\* C10: load does not modify its inputs.  When a load call returns, the
\* caller's args mapping, with every mapping nested in it, has the keys and
\* values it had before the call; a second load of the same name with the
\* same args object returns an equal configuration.
C10_LoadKeepsItsInputs ==
    [][ (res'.op = "load" /\ res'.exc = "none") =>
          /\ Plain(heap', inp.args) = Plain(heap, inp.args)
          /\ (res.op = "load" /\ res.exc = "none" /\ res.name = res'.name)
                => res'.val = res.val ]_vars

----------------------------------------------------------------------------
(* One Config saved under a directory and loaded back *)

N_s == <<"s">>                        \* a name without a dot, cfg/s.yaml

SaveMappings ==
    DictLitsSeq(<<K_a, K_c>>,
                {IntV(1), AList, NoneV, MapL(<<Item(K_b, IntV(1))>>)})
      \cup {MapL(<<Item(NAME_items, IntV(1))>>)}
SaveNames == {N_ov, N_s}

\* the directories that exist beforehand: none, cfg, or cfg and cfg/o
SaveDirs ==
    LET op == joinpath(Path(P_cfg), replace(N_ov, SEP, OSSEP) \o EXT)
    IN  {prefixes(Path(<<>>)), prefixes(Path(P_cfg)), prefixes(parent(op))}

InitSave ==
    \E M \in SaveMappings, ds \in SaveDirs :
        LET a == alloc(<<>>, M)
            c == Config_init(a.h, a.ret)
        IN  /\ heap = c.h
            /\ inp = [M |-> M, cfg |-> c.ret, saved |-> {}]
            /\ fs = [dirs |-> ds, files |-> <<>>]
            /\ cdir = ConfigDir(P_cfg, NoneV)
            /\ res = Idle
            /\ nops = 0

\* cfg.save(name, directory); the dict that to_dict built is dropped
Save(name) ==
    /\ nops < MaxSaves
    /\ LET r == save(heap, fs, inp.cfg, name, P_cfg)
       IN  /\ fs' = r.fs
           /\ res' = [op |-> "save", exc |-> r.exc, name |-> name]
           /\ inp' = [inp EXCEPT !.saved =
                         IF r.exc = "none" THEN @ \cup {name} ELSE @]
    /\ nops' = nops + 1
    /\ UNCHANGED <<heap, cdir>>

\* cdir.load(name), with no default filename and no args
LoadSaved(name) ==
    /\ nops < MaxSaves
    /\ LET r == load(heap, fs, cdir, StrV(name), NoneV)
       IN  /\ heap' = r.h
           /\ res' = [op |-> "load", exc |-> r.exc, name |-> name,
                      val |-> Plain(r.h, r.ret)]
    /\ nops' = nops + 1
    /\ UNCHANGED <<fs, cdir, inp>>

NextSave ==
    \/ \E name \in SaveNames : Save(name)
    \/ \E name \in SaveNames : LoadSaved(name)

SpecSave == InitSave /\ [][NextSave]_vars

\* C9: save creates intermediate directories as needed.  Whatever
\* directories exist beforehand, save(name, d) succeeds, every directory on
\* the way to d/a/b/.../z.yaml exists afterwards and the file holds the plain
\* form of the configuration; a following load of the name from d, with no
\* default filename and no args, returns an equal configuration.
C9_SaveCreatesDirectories ==
    /\ res.op = "save" =>
         LET f == joinpath(Path(P_cfg), replace(res.name, SEP, OSSEP) \o EXT)
         IN  /\ res.exc = "none"
             /\ prefixes(parent(f)) \subseteq fs.dirs
             /\ isFile(fs, f)
             /\ plainL(fs.files[f]) = Plain(heap, inp.cfg)
    /\ (res.op = "load" /\ res.name \in inp.saved) =>
         (res.exc = "none" /\ res.val = Plain(heap, inp.cfg))

====
